---- MODULE Spec2Model ----
(***************************************************************************)
(* State-machine model of python_mccdaq's DAQ wrapper: daq_linux.DAQ and   *)
(* daq_windows.DAQ.  One wrapper object drives one vendor backend.         *)
(*                                                                         *)
(* Modelling conventions                                                   *)
(*  - `platform` selects which of the two DAQ classes the object is.       *)
(*  - Module-level names the sources use (enums, time, ScanStatus, ...)    *)
(*    are taken to be bound to the vendor-library objects they denote; the *)
(*    model follows the control and data flow of the methods themselves,   *)
(*    including Python's rules for unbound locals and deleted attributes.  *)
(*  - Python's None is the empty sequence, a present value v is <<v>>.     *)
(*  - A backend call that may raise takes its success as an input of the   *)
(*    step that makes it.                                                  *)
(*  - AInScan is a sequence of steps (pc) because the backend answers      *)
(*    between them; every other method is one atomic action.               *)
(*  - The wall clock is sampled at the instants ClockValues, in seconds     *)
(*    since the scan started; a clock read finds it at the same or the     *)
(*    next instant, a sleep moves it to any later sampled instant.         *)
(***************************************************************************)
EXTENDS Integers, Sequences, FiniteSets, TLC

(* ------------------------------ bounds -------------------------------- *)
\* channels of the device in single-ended mode (differential has half)
MaxChannels == 2
\* largest samples_per_channel a caller requests
MaxSamples == 1
\* largest explicit scan_time a caller passes, in seconds
MaxTick == 1
\* consecutive status polls recorded in cmdLog before the log saturates
MaxPolls == 2

(* ------------------------- program constants -------------------------- *)
\* daq_linux.py:327  scan_time = 500000 when the caller gave none
DefaultScanTime == 500000

None == <<>>
Some(v) == <<v>>
Val(o) == o[1]
\* an attribute that was never assigned (reading it raises AttributeError)
Unset == <<0, 0>>
IsInt(o) == Len(o) = 1
NoInfo == [set |-> FALSE, pacer |-> FALSE]

Platforms == {"linux", "windows"}
Modes == {"SINGLE_ENDED", "DIFFERENTIAL"}
\* channel indices a caller passes (one below 0 up to one past the last)
Channels == -1..MaxChannels
SampleCounts == 1..MaxSamples
ScanTimes == {None} \cup {Some(t) : t \in 0..MaxTick}
\* sample counts a status poll can report
MaxCount == MaxSamples * MaxChannels
Counts == 0..MaxCount
ClockValues == (0..(MaxTick + 1)) \cup {DefaultScanTime, DefaultScanTime + 1}
ClockTop == DefaultScanTime + 1

\* the device's channel count for an analog-input mode (backend property)
NumChansByMode(mode) ==
    IF mode = "SINGLE_ENDED" THEN MaxChannels ELSE MaxChannels \div 2

(* ------------------------- text and enumerations ---------------------- *)
\* a Python str is the sequence of its characters
LowerCase == <<"a", "b", "c", "d", "e", "f", "g", "h", "i", "j", "k", "l", "m",
               "n", "o", "p", "q", "r", "s", "t", "u", "v", "w", "x", "y", "z">>
UpperCase == <<"A", "B", "C", "D", "E", "F", "G", "H", "I", "J", "K", "L", "M",
               "N", "O", "P", "Q", "R", "S", "T", "U", "V", "W", "X", "Y", "Z">>

\* str.upper(), character by character: a lower-case letter becomes its
\* upper-case letter, any other character stays
UpperOf ==
    [c \in {LowerCase[i] : i \in 1..Len(LowerCase)} |->
        UpperCase[CHOOSE i \in 1..Len(LowerCase) : LowerCase[i] = c]]
UpperChar(c) == IF c \in DOMAIN UpperOf THEN UpperOf[c] ELSE c
Upper(s) == [i \in 1..Len(s) |-> UpperChar(s[i])]

\* s[0:n]
Prefix(s, n) == SubSeq(s, 1, IF Len(s) < n THEN Len(s) ELSE n)

\* name.startswith(p)
StartsWith(name, p) ==
    Len(p) <= Len(name) /\ SubSeq(name, 1, Len(p)) = p

\* enums.ULRange in declaration order (the part of the vendor's table the
\* model uses): the member, its name's characters, its range_max
ULRange ==
    << [id |-> "BIP10VOLTS", range_max |-> 10,
        name |-> <<"B", "I", "P", "1", "0", "V", "O", "L", "T", "S">>],
       [id |-> "BIP5VOLTS", range_max |-> 5,
        name |-> <<"B", "I", "P", "5", "V", "O", "L", "T", "S">>],
       [id |-> "UNI10VOLTS", range_max |-> 10,
        name |-> <<"U", "N", "I", "1", "0", "V", "O", "L", "T", "S">>],
       [id |-> "UNI5VOLTS", range_max |-> 5,
        name |-> <<"U", "N", "I", "5", "V", "O", "L", "T", "S">>],
       [id |-> "MA4TO20", range_max |-> 20,
        name |-> <<"M", "A", "4", "T", "O", "2", "0">>],
       [id |-> "MA0TO20", range_max |-> 20,
        name |-> <<"M", "A", "0", "T", "O", "2", "0">>] >>

\* enums.AnalogInputMode and enums.DigitalPortType: member names
AnalogInputMode ==
    << [id |-> "SINGLE_ENDED",
        name |-> <<"S", "I", "N", "G", "L", "E", "_", "E", "N", "D", "E", "D">>],
       [id |-> "DIFFERENTIAL",
        name |-> <<"D", "I", "F", "F", "E", "R", "E", "N", "T", "I", "A", "L">>] >>
DigitalPortType ==
    << [id |-> "FIRSTPORTA",
        name |-> <<"F", "I", "R", "S", "T", "P", "O", "R", "T", "A">>],
       [id |-> "FIRSTPORTB",
        name |-> <<"F", "I", "R", "S", "T", "P", "O", "R", "T", "B">>],
       [id |-> "AUXPORT",
        name |-> <<"A", "U", "X", "P", "O", "R", "T">>] >>

\* Enum[name]: the member of that name, None when there is none (KeyError)
Member(enum, name) ==
    IF \E i \in 1..Len(enum) : enum[i].name = name
    THEN Some(enum[CHOOSE i \in 1..Len(enum) : enum[i].name = name].id)
    ELSE None

\* look_up_mode / look_up_dio_port: enums.X[name.upper()]
LookUpMode(mode) == Member(AnalogInputMode, Upper(mode))
LookUpDioPort(port_name) == Member(DigitalPortType, Upper(port_name))

\* the for loop of look_up_range from table position i on: the first entry
\* whose name starts with the prefix and whose range_max equals rang
RECURSIVE LookUpRangeFrom(_, _, _, _)
LookUpRangeFrom(table, i, rang, prefix) ==
    IF i > Len(table) THEN None
    ELSE IF StartsWith(table[i].name, prefix) /\ table[i].range_max = rang
    THEN Some(table[i].id)
    ELSE LookUpRangeFrom(table, i + 1, rang, prefix)

\* mutant of LookUpRange: the polarity is compared as given, not upper-cased
LookUpRangeAsGiven(rang, polarity) ==
    LookUpRangeFrom(ULRange, 1, rang, Prefix(polarity, 2))

\* look_up_range(rang, polarity) / lookUpRange
LookUpRange(rang, polarity) ==
    LookUpRangeFrom(ULRange, 1, rang, Prefix(Upper(polarity), 2))

(* --------------------------- configuration ---------------------------- *)
\* the settings _apply_config reads; a config maps each to None (the key is
\* absent) or to its value
Keys == {"DACrange", "ADCmode", "ADCrange", "ADCpolarity", "DOutPort",
         "DInPort", "sleep_time"}

\* the str values the model's configurations use
unipolar == <<"u", "n", "i", "p", "o", "l", "a", "r">>
bi == <<"b", "i">>
single_ended == <<"s", "i", "n", "g", "l", "e", "_", "e", "n", "d", "e", "d">>
Differential == <<"D", "i", "f", "f", "e", "r", "e", "n", "t", "i", "a", "l">>
bogus == <<"b", "o", "g", "u", "s">>
firstporta == <<"f", "i", "r", "s", "t", "p", "o", "r", "t", "a">>
firstportb == <<"f", "i", "r", "s", "t", "p", "o", "r", "t", "b">>

\* config/daq-default.hjson, read by _default_daq_config
DefaultConfig ==
    [DACrange |-> Some(5), ADCmode |-> Some(single_ended),
     ADCrange |-> Some(10), ADCpolarity |-> Some(unipolar),
     DOutPort |-> Some(firstporta), DInPort |-> Some(firstportb),
     sleep_time |-> Some(1)]

\* a config that sets no key, and the one that sets key k to v
NoOverlay == [k \in Keys |-> None]
Setting(k, v) == [NoOverlay EXCEPT ![k] = Some(v)]

\* the configs a file holds or a caller passes
Overlays ==
    {NoOverlay,
     Setting("ADCmode", Differential), Setting("ADCmode", single_ended),
     Setting("ADCmode", bogus),
     Setting("ADCrange", 7), Setting("DOutPort", firstportb)}

\* hjsonconfig.merge(base, overlay): key by key, the overlay's value where it
\* sets the key, the base's otherwise
Merge(base, overlay) ==
    [k \in Keys |-> IF overlay[k] # None THEN overlay[k] ELSE base[k]]

\* the attributes _apply_config assigns, as one record
Selectors(ao, mode, ai, dop, dip, slp) ==
    [ao_range |-> ao, ai_mode |-> mode, ai_range |-> ai, do_port |-> dop,
     di_port |-> dip, sleep_time |-> slp]

\* _apply_config on config cfg, the attributes being cur before it: the
\* assignments are made in order and the first lookup that raises KeyError
\* (an absent key, a name that is no member of its enumeration) ends them.
\* The result is the attributes afterwards and the error, "none" if none.
ApplyConfig(cfg, cur) ==
    LET done(sel, e) == [sel |-> sel, err |-> e]
        s1 == [cur EXCEPT !.ao_range = LookUpRange(Val(cfg.DACrange), unipolar)]
        s2 == [s1 EXCEPT !.ai_mode = Val(LookUpMode(Val(cfg.ADCmode)))]
        s3 == [s2 EXCEPT !.ai_range = LookUpRange(Val(cfg.ADCrange),
                                                  Val(cfg.ADCpolarity))]
        s4 == [s3 EXCEPT !.do_port = LookUpDioPort(Val(cfg.DOutPort))]
        s5 == [s4 EXCEPT !.di_port = LookUpDioPort(Val(cfg.DInPort))]
        s6 == [s5 EXCEPT !.sleep_time = cfg.sleep_time]
    IN IF cfg.DACrange = None THEN done(cur, "KeyError")
       ELSE IF cfg.ADCmode = None \/ LookUpMode(Val(cfg.ADCmode)) = None
       THEN done(s1, "KeyError")
       ELSE IF cfg.ADCrange = None \/ cfg.ADCpolarity = None
       THEN done(s2, "KeyError")
       ELSE IF cfg.DOutPort = None \/ LookUpDioPort(Val(cfg.DOutPort)) = None
       THEN done(s3, "KeyError")
       ELSE IF cfg.DInPort = None \/ LookUpDioPort(Val(cfg.DInPort)) = None
       THEN done(s4, "KeyError")
       ELSE IF cfg.sleep_time = None THEN done(s5, "KeyError")
       ELSE done(s6, "none")

VARIABLES
    platform,            \* which DAQ class this object is
    verbose,             \* self.verbose
    hwPacer,             \* the device supports paced scans (hardware fact)
    devices,             \* self.devices: None or <<number of devices listed>>
    daq_device,          \* self.daq_device: "None", "dev", or "deleted" (attribute removed by del)
    boardnum,            \* self.boardnum
    number_of_channels,  \* self.number_of_channels: Unset, None or <<n>>
    AiInfo,              \* self.AiInfo: NoInfo (never assigned) or the cached capability record
    ai_mode,             \* self.ai_mode / self.AiMode
    config,              \* self.config: the merged configuration
    ao_range,            \* self.ao_range / self.AoRange: None or <<member of ULRange>>
    ai_range,            \* self.ai_range / self.AiRange: None or <<member of ULRange>>
    do_port,             \* self.do_port / self.DoPort
    di_port,             \* self.di_port / self.DiPort
    sleep_time,          \* self.sleep_time / self.sleepTime
    DioInfo,             \* self.DioInfo is assigned (with it, on linux, self.dio_device)
    board_range,         \* backend (windows): the analog-input range set on the board, BoardInfo.RANGE
    pc,                  \* position of the AInScan call: idle, start, looptest, poll0, poll, sleep, finally, done
    low_channel,         \* AInScan local (after clamping)
    high_channel,        \* AInScan local (after clamping)
    samples_per_channel, \* AInScan argument
    scan_time,           \* AInScan argument / local
    channel_count,       \* AInScan local
    status,              \* AInScan local: "unbound" until the first poll assigns it
    curr_count,          \* AInScan local: count reported by the last poll
    elapsed,             \* time.time() - start_time at the last clock read or sleep
    exc,                 \* exception in flight / raised by the last call, "none" if none
    outcome,             \* how the last call ended: none, returned, raised
    exitPath,            \* how the polling loop was left: none, startfail, count, timeout, idle, error
    timeoutGiven,        \* the caller passed a scan_time
    scanRunning,         \* backend: a background scan is running
    bufferHeld,          \* the scan buffer of the current call is allocated and not released
    cmdLog,              \* backend scan commands issued by the current call, in order; a command that raised ends in _err
    lastIO,              \* the last call if it was a single-sample call or a capability refresh
    lastCfg              \* the last call if it was a configuration call, with what it was given

configVars == <<config, ao_range, ai_range, do_port, di_port, sleep_time>>
wrapperVars == <<platform, verbose, hwPacer, devices, daq_device, boardnum,
                 number_of_channels, AiInfo, ai_mode, configVars, DioInfo,
                 board_range>>
frameVars == <<low_channel, high_channel, samples_per_channel, scan_time,
               channel_count, status, curr_count, elapsed, exitPath, timeoutGiven>>
callVars == <<pc, exc, outcome>>
backendVars == <<scanRunning, bufferHeld, cmdLog>>
vars == <<wrapperVars, frameVars, callVars, backendVars, lastIO, lastCfg>>

NoIO == [op |-> "none", channel |-> 0, result |-> "none", backend |-> FALSE,
         port |-> None, cmds |-> <<>>]

\* the attributes before the first _apply_config, and the current ones
NoSelectors == Selectors(None, "SINGLE_ENDED", None, None, None, None)
CurSelectors ==
    Selectors(ao_range, ai_mode, ai_range, do_port, di_port, sleep_time)

\* the record of a configuration call: the call; for the constructor, the
\* configs it was given (file: what the file named holds); for read_config,
\* whether there is such a file (found); for look_up_range, the arguments
\* and the result; for connect on windows, how registering the board ended
\* (result)
Cfg(op, file, found, explicit) ==
    [op |-> op, file |-> file, found |-> found, explicit |-> explicit,
     rang |-> 0, polarity |-> <<>>, result |-> None]
NoCfg == Cfg("none", NoOverlay, FALSE, NoOverlay)
Called(op) == [NoCfg EXCEPT !.op = op]

\* mutant of InitConfig: the file is read after the explicit config is merged
InitConfigFileLast(file, explicit) ==
    Merge(Merge(DefaultConfig, explicit), file)

\* __init__: the default config, then the config file's, then the
\* explicit config (NoOverlay where the caller gave none)
InitConfig(file, explicit) ==
    Merge(Merge(DefaultConfig, file), explicit)

\* the object DAQ(config, configfile, autoconnect=False) constructs, given what
\* the file holds and the explicit config; explGiven: config is not None.  A
\* constructor that raised made no object: every set_config of __init__
\* applied its merged config without error, and daq_windows did not reach
\* its call of the pprint module (line 77: verbose, and a config given).
Constructed(file, explGiven, explicit) ==
    \E a1 \in {ApplyConfig(DefaultConfig, NoSelectors)} :
    \E a2 \in {ApplyConfig(Merge(DefaultConfig, file), a1.sel)} :
    \E a3 \in {ApplyConfig(InitConfig(file, explicit), a2.sel)} :
       /\ a1.err = "none" /\ a2.err = "none" /\ a3.err = "none"
       /\ ~(platform = "windows" /\ verbose /\ explGiven)
       /\ config = InitConfig(file, explicit)
       /\ ao_range = a3.sel.ao_range
       /\ ai_mode = a3.sel.ai_mode
       /\ ai_range = a3.sel.ai_range
       /\ do_port = a3.sel.do_port
       /\ di_port = a3.sel.di_port
       /\ sleep_time = a3.sel.sleep_time
       /\ lastCfg = Cfg("init", file, TRUE, explicit)

\* the analog-input range the board holds before the wrapper first sets it
\* (hardware setting)
BoardAdcRange == "BIP5VOLTS"

\* the rest of the state after construction
InitRest ==
    /\ devices = None
    /\ daq_device = "None"
    /\ boardnum = None
    /\ number_of_channels = Unset
    /\ AiInfo = NoInfo
    /\ DioInfo = FALSE
    /\ board_range = BoardAdcRange
    /\ pc = "idle"
    /\ low_channel = 0
    /\ high_channel = 0
    /\ samples_per_channel = 0
    /\ scan_time = None
    /\ channel_count = 0
    /\ status = "unbound"
    /\ curr_count = 0
    /\ elapsed = 0
    /\ exc = "none"
    /\ outcome = "none"
    /\ exitPath = "none"
    /\ timeoutGiven = FALSE
    /\ scanRunning = FALSE
    /\ bufferHeld = FALSE
    /\ cmdLog = <<>>
    /\ lastIO = NoIO

\* a wrapper built from the default config and a file that sets the
\* analog-input mode or nothing
Init ==
    /\ platform \in Platforms
    /\ verbose \in BOOLEAN
    /\ hwPacer \in BOOLEAN
    /\ \E file \in {NoOverlay, Setting("ADCmode", Differential)} :
            Constructed(file, FALSE, NoOverlay)
    /\ InitRest

\* a wrapper built from any of the model's config files and explicit configs
ConfigInit ==
    /\ platform \in Platforms
    /\ verbose \in BOOLEAN
    /\ hwPacer = TRUE
    /\ \E file \in Overlays, explGiven \in BOOLEAN, explicit \in Overlays :
            /\ ~explGiven => explicit = NoOverlay
            /\ Constructed(file, explGiven, explicit)
    /\ InitRest

(* ----------------------- connect / disconnect ------------------------- *)
\* board numbers a caller passes to connect
Boards == 0..1

\* the call ended by raising e / by returning, outside AInScan
Raised(e) == exc' = e /\ outcome' = "raised"
Returned == exc' = "none" /\ outcome' = "returned"

\* the capability record get_ai_info / getAiInfo caches
QueryAiInfo == [set |-> TRUE, pacer |-> hwPacer]

\* AiInfo.get_ranges(mode): the ranges the device supports in a mode, in the
\* device's order (hardware fact)
DeviceRanges(mode) ==
    IF mode = "SINGLE_ENDED" THEN <<"BIP10VOLTS", "BIP5VOLTS">>
    ELSE <<"BIP5VOLTS", "BIP10VOLTS", "UNI5VOLTS">>

\* the DAC range the board is set to (hardware setting; connect never sets it)
BoardDacRange == "UNI10VOLTS"

\* the members of ULRange
RangeIds == {ULRange[i].id : i \in 1..Len(ULRange)}

\* list_devices / listDevices: the inventory holds n devices;
\* an empty inventory raises (Exception on linux, RuntimeError on windows),
\* which neither list_devices nor connect catches
ListDevicesFails(n) == n = 0

\* daq_linux.DAQ.connect(boardnum): b is the board number, n the inventory
\* size list_devices finds when self.devices is None, ok whether the backend
\* connect() call succeeds
ConnectLinux(b, n, ok) ==
    /\ platform = "linux"
    /\ pc = "idle"
    /\ LET devs == IF devices = None THEN Some(n) ELSE devices
           same == UNCHANGED <<number_of_channels, AiInfo, DioInfo, ai_range>>
       IN
       /\ devices' = devs
       /\ IF devices = None /\ ListDevicesFails(n)
          THEN /\ Raised("Exception")
               /\ UNCHANGED <<daq_device, boardnum>>
               /\ same
          ELSE IF daq_device = "deleted"
          THEN \* self.daq_device is read after an earlier del removed it
               /\ Raised("AttributeError")
               /\ UNCHANGED <<daq_device, boardnum>>
               /\ same
          ELSE IF b >= Val(devs)
          THEN \* self.devices[boardnum] raises after the old handle was deleted
               /\ Raised("IndexError")
               /\ daq_device' = IF daq_device = "None" THEN "None" ELSE "deleted"
               /\ UNCHANGED boardnum
               /\ same
          ELSE IF ~ok
          THEN \* daq_device.connect() raises a backend error: not caught
               /\ Raised("BackendError")
               /\ daq_device' = "dev"
               /\ boardnum' = Some(b)
               /\ same
          ELSE \* set_ai_mode(self.ai_mode) takes the mode's first range;
               \* set_ai_range and set_ao_range store what is already there
               /\ Returned
               /\ daq_device' = "dev"
               /\ boardnum' = Some(b)
               /\ AiInfo' = QueryAiInfo
               /\ DioInfo' = TRUE
               /\ number_of_channels' = Some(NumChansByMode(ai_mode))
               /\ ai_range' = Some(DeviceRanges(ai_mode)[1])
    /\ lastIO' = NoIO
    /\ lastCfg' = Called("connect")
    /\ UNCHANGED <<platform, verbose, hwPacer, ai_mode, config, ao_range,
                   do_port, di_port, sleep_time, board_range>>
    /\ UNCHANGED <<frameVars, pc, backendVars>>

\* how create_daq_device ends: it returns, or raises ULError with the code
\* BOARDNUMINUSE or with another code
Registrations == {"ok", "in_use", "error"}

\* daq_windows.DAQ.connect(boardnum): reg is how create_daq_device ends, ok
\* whether the capability and mode calls after the try block succeed.  The
\* except clause around create_daq_device catches the ULError and re-raises
\* nothing, whatever the code, so the call goes on the same way for every reg.
ConnectWindows(b, n, reg, ok) ==
    /\ platform = "windows"
    /\ pc = "idle"
    /\ LET devs == IF devices = None THEN Some(n) ELSE devices
           same == UNCHANGED <<number_of_channels, AiInfo, DioInfo, ai_range,
                               ao_range, board_range>>
       IN
       /\ devices' = devs
       /\ IF devices = None /\ ListDevicesFails(n)
          THEN /\ Raised("RuntimeError")
               /\ UNCHANGED <<daq_device, boardnum>>
               /\ same
          ELSE IF b >= Val(devs)
          THEN /\ Raised("IndexError")
               /\ UNCHANGED <<daq_device, boardnum>>
               /\ same
          ELSE IF ~ok
          THEN \* a backend call after the try block raises
               /\ Raised("BackendError")
               /\ daq_device' = "dev"
               /\ boardnum' = Some(b)
               /\ same
          ELSE \* setAiRange(self.AiRange) writes the range to the board and
               \* getAiRange reads it back (what the board holds after it
               \* was given None is the library's affair); getAoRange
               \* replaces AoRange by the board's DAC range
               /\ Returned
               /\ daq_device' = "dev"
               /\ boardnum' = Some(b)
               /\ AiInfo' = QueryAiInfo
               /\ DioInfo' = TRUE
               /\ number_of_channels' = Some(NumChansByMode(ai_mode))
               /\ IF ai_range = None
                  THEN \E r \in RangeIds : ai_range' = Some(r)
                  ELSE ai_range' = ai_range
               /\ board_range' = Val(ai_range')
               /\ ao_range' = Some(BoardDacRange)
    /\ lastIO' = NoIO
    /\ lastCfg' = [Called("connect") EXCEPT !.result = Some(reg)]
    /\ UNCHANGED <<platform, verbose, hwPacer, ai_mode, config, do_port,
                   di_port, sleep_time>>
    /\ UNCHANGED <<frameVars, pc, backendVars>>

Connect ==
    \E b \in Boards, n \in 0..1, ok \in BOOLEAN :
        \/ ConnectLinux(b, n, ok)
        \/ \E reg \in Registrations : ConnectWindows(b, n, reg, ok)

\* the verbose message of disconnect indexes self.devices[self.boardnum]
PrintIndexError ==
    IF devices = None \/ boardnum = None THEN "TypeError"
    ELSE IF Val(boardnum) >= Val(devices) THEN "IndexError"
    ELSE "none"

\* DAQ.disconnect(); releasing the device ends its background scan
Disconnect ==
    /\ pc = "idle"
    /\ IF platform = "linux" /\ daq_device = "deleted"
       THEN /\ Raised("AttributeError")
            /\ UNCHANGED <<daq_device, boardnum, number_of_channels, scanRunning>>
       ELSE IF platform = "linux" /\ verbose /\ daq_device = "None"
               /\ PrintIndexError # "none"
       THEN /\ Raised(PrintIndexError)
            /\ UNCHANGED <<daq_device, boardnum, number_of_channels, scanRunning>>
       ELSE /\ Returned
            /\ daq_device' = "None"
            /\ boardnum' = None
            /\ number_of_channels' = None
            /\ scanRunning' = IF daq_device = "dev" THEN FALSE ELSE scanRunning
    /\ lastIO' = NoIO
    /\ lastCfg' = Called("disconnect")
    /\ UNCHANGED <<platform, verbose, hwPacer, devices, AiInfo, ai_mode,
                   configVars, DioInfo, board_range>>
    /\ UNCHANGED <<frameVars, pc, bufferHeld, cmdLog>>

(* --------------------------- single sample ---------------------------- *)
\* AIn's upper-bound test on the channel index
AInChannelTooHigh(channel, n) == channel > n

IO(op, channel, result, backend) ==
    [op |-> op, channel |-> channel, result |-> result, backend |-> backend,
     port |-> None, cmds |-> <<>>]

\* DAQ.AIn(channel): ok is whether the backend read succeeds
AIn(channel, ok) ==
    /\ pc = "idle"
    /\ LET fail(e) == /\ Raised(e)
                      /\ lastIO' = IO("AIn", channel, e, FALSE)
       IN
       IF daq_device = "deleted" THEN fail("AttributeError")
       ELSE IF daq_device = "None" THEN fail("NotConnected")
       ELSE IF number_of_channels = Unset THEN fail("AttributeError")
       ELSE IF number_of_channels = None THEN fail("TypeError")
       ELSE IF AInChannelTooHigh(channel, Val(number_of_channels))
            THEN fail("ValueError")
       ELSE IF channel < 0 THEN fail("ValueError")
       ELSE IF ok THEN /\ Returned
                       /\ lastIO' = IO("AIn", channel, "read", TRUE)
       ELSE /\ Raised("BackendError")
            /\ lastIO' = IO("AIn", channel, "BackendError", TRUE)
    /\ lastCfg' = NoCfg
    /\ UNCHANGED <<wrapperVars, frameVars, pc, backendVars>>

\* the attributes connect assigns from the device (ai_device, ao_device,
\* dio_device on linux) exist: connect assigns them together with AiInfo
SubDevicesAssigned == AiInfo.set

\* an operation that begins with the "is not connected" test, up to its
\* first use of the device: the error it raises there, "none" if none
NotConnectedTest ==
    IF daq_device = "deleted" THEN "AttributeError"
    ELSE IF daq_device = "None" THEN "NotConnected"
    ELSE IF platform = "linux" /\ ~SubDevicesAssigned THEN "AttributeError"
    ELSE "none"

(* ------------------------ configuration calls ------------------------- *)
\* the attributes take the values of the record sel
Assign(sel) ==
    /\ ao_range' = sel.ao_range
    /\ ai_mode' = sel.ai_mode
    /\ ai_range' = sel.ai_range
    /\ do_port' = sel.do_port
    /\ di_port' = sel.di_port
    /\ sleep_time' = sel.sleep_time

\* the body of set_config(overlay): the merged config is stored, then
\* applied; a KeyError of _apply_config propagates
MergeAndApply(overlay) ==
    \E merged \in {Merge(config, overlay)} :
        \E a \in {ApplyConfig(merged, CurSelectors)} :
            /\ config' = merged
            /\ Assign(a.sel)
            /\ IF a.err = "none" THEN Returned ELSE Raised(a.err)

\* DAQ.set_config(config) / setConfig
SetConfig(overlay) ==
    /\ pc = "idle"
    /\ MergeAndApply(overlay)
    /\ lastCfg' = Cfg("set_config", NoOverlay, FALSE, NoOverlay)
    /\ lastIO' = NoIO
    /\ UNCHANGED <<platform, verbose, hwPacer, devices, daq_device, boardnum,
                   number_of_channels, AiInfo, DioInfo, board_range>>
    /\ UNCHANGED <<frameVars, pc, backendVars>>

\* mutant of FileIsMerged: a file that does not exist is merged as a config
\* that sets nothing
FileIsMergedAlways(found) == TRUE

\* read_config: the config read from the file is merged when the file
\* exists; hjsonconfig raises OSError when it does not, which read_config
\* catches, leaving set_config uncalled
FileIsMerged(found) == found

\* DAQ.read_config(filename) / readConfig: found is whether the file exists,
\* file what it holds
ReadConfig(found, file) ==
    /\ pc = "idle"
    /\ ~found => file = NoOverlay
    /\ IF FileIsMerged(found)
       THEN MergeAndApply(file)
       ELSE Returned /\ UNCHANGED <<ai_mode, configVars>>
    /\ lastCfg' = Cfg("read_config", NoOverlay, found, NoOverlay)
    /\ lastIO' = NoIO
    /\ UNCHANGED <<platform, verbose, hwPacer, devices, daq_device, boardnum,
                   number_of_channels, AiInfo, DioInfo, board_range>>
    /\ UNCHANGED <<frameVars, pc, backendVars>>

\* DAQ.set_ai_mode(mode) on linux: ok is whether the backend's capability
\* query succeeds
SetAiModeLinux(mode, ok) ==
    /\ platform = "linux"
    /\ pc = "idle"
    /\ ai_mode' = mode
    /\ LET e == NotConnectedTest IN
       IF e # "none"
       THEN /\ Raised(e)
            /\ UNCHANGED <<AiInfo, number_of_channels, ai_range>>
       ELSE IF ~ok
       THEN /\ Raised("BackendError")
            /\ UNCHANGED <<AiInfo, number_of_channels, ai_range>>
       ELSE /\ Returned
            /\ AiInfo' = QueryAiInfo
            /\ number_of_channels' = Some(NumChansByMode(mode))
            /\ ai_range' = Some(DeviceRanges(mode)[1])
    /\ lastIO' = NoIO
    /\ lastCfg' = NoCfg
    /\ UNCHANGED <<platform, verbose, hwPacer, devices, daq_device, boardnum,
                   config, ao_range, do_port, di_port, sleep_time, DioInfo,
                   board_range>>
    /\ UNCHANGED <<frameVars, pc, backendVars>>

\* DAQ.setAiMode(mode) on windows: a_input_mode is called first, then
\* getAiInfo, which tests the connection; ok is whether the backend calls
\* succeed.  getAiMode reads the mode back from the board; setAiRange
\* writes self.AiRange to the board and getAiRange reads it back.
SetAiModeWindows(mode, ok) ==
    /\ platform = "windows"
    /\ pc = "idle"
    /\ IF ~ok
       THEN /\ Raised("BackendError")
            /\ UNCHANGED <<AiInfo, number_of_channels, ai_range, ai_mode,
                           board_range>>
       ELSE IF daq_device = "None"
       THEN /\ Raised("NotConnected")
            /\ UNCHANGED <<AiInfo, number_of_channels, ai_range, ai_mode,
                           board_range>>
       ELSE /\ Returned
            /\ AiInfo' = QueryAiInfo
            /\ ai_mode' = mode
            /\ number_of_channels' = Some(NumChansByMode(mode))
            /\ IF ai_range = None
               THEN \E r \in RangeIds : ai_range' = Some(r)
               ELSE ai_range' = ai_range
            /\ board_range' = Val(ai_range')
    /\ lastIO' = NoIO
    /\ lastCfg' = NoCfg
    /\ UNCHANGED <<platform, verbose, hwPacer, devices, daq_device, boardnum,
                   config, ao_range, do_port, di_port, sleep_time, DioInfo>>
    /\ UNCHANGED <<frameVars, pc, backendVars>>

SetAiMode ==
    \E mode \in Modes, ok \in BOOLEAN :
        \/ SetAiModeLinux(mode, ok)
        \/ SetAiModeWindows(mode, ok)

(* --------------------- analog-input range (windows) ------------------ *)
\* AiInfo.available_ranges: the ranges the board offers, in the board's
\* order (hardware fact)
AvailableRanges == <<"BIP10VOLTS", "BIP5VOLTS">>

\* what the range calls leave alone
RangeCallFrame ==
    /\ lastIO' = NoIO
    /\ UNCHANGED <<platform, verbose, hwPacer, devices, daq_device, boardnum,
                   number_of_channels, AiInfo, ai_mode, config, ao_range,
                   do_port, di_port, sleep_time, DioInfo>>
    /\ UNCHANGED <<frameVars, pc, backendVars>>

\* the body of setAiRange(range): the range is written to the board, then
\* cached; ok is whether the backend's set_config succeeds
WriteAiRange(range, ok) ==
    IF ok
    THEN /\ Returned
         /\ board_range' = range
         /\ ai_range' = Some(range)
    ELSE /\ Raised("BackendError")
         /\ UNCHANGED <<board_range, ai_range>>

\* daq_windows.DAQ.setAiRange(range)
SetAiRange(range, ok) ==
    /\ platform = "windows"
    /\ pc = "idle"
    /\ WriteAiRange(range, ok)
    /\ lastCfg' = Called("setAiRange")
    /\ RangeCallFrame

\* daq_windows.DAQ.getAiRange(): the board's range is read, cached and
\* returned; ok is whether the backend's get_config succeeds
GetAiRange(ok) ==
    /\ platform = "windows"
    /\ pc = "idle"
    /\ IF ok
       THEN /\ Returned
            /\ ai_range' = Some(board_range)
            /\ lastCfg' = [Called("getAiRange") EXCEPT
                              !.result = Some(board_range)]
       ELSE /\ Raised("BackendError")
            /\ UNCHANGED ai_range
            /\ lastCfg' = Called("getAiRange")
    /\ UNCHANGED board_range
    /\ RangeCallFrame

\* daq_windows.DAQ.setAiRangeIndex(r): the r-th available range is cached;
\* nothing is written to the board
SetAiRangeIndex(r) ==
    /\ platform = "windows"
    /\ pc = "idle"
    /\ IF ~AiInfo.set
       THEN /\ Raised("AttributeError")
            /\ UNCHANGED ai_range
       ELSE IF r < Len(AvailableRanges)
       THEN /\ Returned
            /\ ai_range' = Some(AvailableRanges[r + 1])
       ELSE /\ Raised("ValueError")
            /\ UNCHANGED ai_range
    /\ lastCfg' = [Called("setAiRangeIndex") EXCEPT !.rang = r]
    /\ UNCHANGED board_range
    /\ RangeCallFrame

\* the arguments of setAiRangeValue(v), each given as what enums.ULRange(v)
\* makes of it: the member of that value, None when no member has the value
RangeValues == {Some("UNI10VOLTS"), None}

\* daq_windows.DAQ.setAiRangeValue(v): setAiRange(enums.ULRange(v))
SetAiRangeValue(member, ok) ==
    /\ platform = "windows"
    /\ pc = "idle"
    /\ IF member = None
       THEN /\ Raised("ValueError")
            /\ UNCHANGED <<board_range, ai_range>>
       ELSE WriteAiRange(Val(member), ok)
    /\ lastCfg' = Called("setAiRangeValue")
    /\ RangeCallFrame

\* the arguments look_up_range is called with
Voltages == {5, 7, 10, 20}
Polarities ==
    {unipolar, bi, <<>>, <<"u">>, <<"U", "n">>, <<"m", "a">>,
     <<"b", "i", "p", "o", "l", "a", "r">>, <<"x", "y">>}

\* a call of look_up_range(rang, polarity) by the wrapper's user
LookUp(rang, polarity) ==
    /\ pc = "idle"
    /\ Returned
    /\ lastCfg' = [NoCfg EXCEPT !.op = "look_up_range", !.rang = rang,
                                !.polarity = polarity,
                                !.result = LookUpRange(rang, polarity)]
    /\ lastIO' = NoIO
    /\ UNCHANGED <<wrapperVars, frameVars, pc, backendVars>>

\* get_ai_info / get_ao_info / get_dio_info (getAiInfo, ...): which is the
\* subsystem, ok whether the backend's query succeeds
GetInfo(which, ok) ==
    /\ pc = "idle"
    /\ LET e == NotConnectedTest IN
       IF e # "none"
       THEN /\ Raised(e)
            /\ lastIO' = IO(which, 0, e, FALSE)
            /\ UNCHANGED <<AiInfo, DioInfo>>
       ELSE IF ~ok
       THEN /\ Raised("BackendError")
            /\ lastIO' = IO(which, 0, "BackendError", TRUE)
            /\ UNCHANGED <<AiInfo, DioInfo>>
       ELSE /\ Returned
            /\ lastIO' = IO(which, 0, "read", TRUE)
            /\ AiInfo' = IF which = "get_ai_info" THEN QueryAiInfo ELSE AiInfo
            /\ DioInfo' = (DioInfo \/ which = "get_dio_info")
    /\ lastCfg' = NoCfg
    /\ UNCHANGED <<platform, verbose, hwPacer, devices, daq_device, boardnum,
                   number_of_channels, ai_mode, configVars, board_range>>
    /\ UNCHANGED <<frameVars, pc, backendVars>>

\* DAQ.AOut(data, channel): ok is whether the backend write succeeds
AOut(channel, ok) ==
    /\ pc = "idle"
    /\ LET fail(e) == /\ Raised(e)
                      /\ lastIO' = IO("AOut", channel, e, FALSE)
       IN
       IF daq_device = "deleted" THEN fail("AttributeError")
       ELSE IF daq_device = "None" THEN fail("NotConnected")
       ELSE IF channel < 0 THEN fail("ValueError")
       ELSE IF platform = "linux" /\ ~SubDevicesAssigned
            THEN fail("AttributeError")
       ELSE IF ok THEN /\ Returned
                       /\ lastIO' = IO("AOut", channel, "written", TRUE)
       ELSE /\ Raised("BackendError")
            /\ lastIO' = IO("AOut", channel, "BackendError", TRUE)
    /\ lastCfg' = NoCfg
    /\ UNCHANGED <<wrapperVars, frameVars, pc, backendVars>>

\* DioInfo.port_info: the types of the device's digital ports (hardware fact)
DevicePorts == <<"FIRSTPORTA", "FIRSTPORTB">>

\* the ports a caller passes to DOut
PortIds == {DigitalPortType[i].id : i \in 1..Len(DigitalPortType)}
PortArgs == {None} \cup {Some(q) : q \in PortIds}

\* the port DOut works on, None when the lookup raises IndexError.
\* daq_linux: the port argument, whose default is FIRSTPORTA.  daq_windows:
\* the argument or self.DoPort, mapped to the index 0 (FIRSTPORTA, AUXPORT)
\* or 1 (FIRSTPORTB) of the device's port list, and then that entry's type.
DOutPortUsed(plat, port, dop) ==
    IF plat = "linux"
    THEN (IF port = None THEN Some("FIRSTPORTA") ELSE port)
    ELSE LET q == IF port = None THEN dop ELSE port
             port_n == IF Val(q) = "FIRSTPORTB" THEN 1 ELSE 0
         IN IF port_n + 1 > Len(DevicePorts) THEN None
            ELSE Some(DevicePorts[port_n + 1])

\* a command sent to the digital subsystem
DCmd(c, q) == [cmd |-> c, port |-> q]

\* DAQ.DOut(data, channel, port): fails is the backend call that raises,
\* d_config_port ("config") or d_bit_out ("write"), or "none"
DOut(channel, port, fails) ==
    /\ pc = "idle"
    /\ LET rec(res, backend, cmds) ==
               [op |-> "DOut", channel |-> channel, result |-> res,
                backend |-> backend, port |-> port, cmds |-> cmds]
           used == DOutPortUsed(platform, port, do_port)
           fail(e) == Raised(e) /\ lastIO' = rec(e, FALSE, <<>>)
       IN
       IF platform = "windows" /\ daq_device = "None"
       THEN fail("NotConnected")
       ELSE IF platform = "linux" /\ ~SubDevicesAssigned
       THEN fail("AttributeError")
       ELSE IF platform = "windows" /\ ~DioInfo THEN fail("AttributeError")
       ELSE IF used = None THEN fail("IndexError")
       ELSE IF fails = "config"
       THEN /\ Raised("BackendError")
            /\ lastIO' = rec("BackendError", TRUE,
                             <<DCmd("config_err", Val(used))>>)
       ELSE IF fails = "write"
       THEN /\ Raised("BackendError")
            /\ lastIO' = rec("BackendError", TRUE,
                             <<DCmd("config", Val(used)),
                               DCmd("write_err", Val(used))>>)
       ELSE /\ Returned
            /\ lastIO' = rec("written", TRUE,
                             <<DCmd("config", Val(used)),
                               DCmd("write", Val(used))>>)
    /\ lastCfg' = NoCfg
    /\ UNCHANGED <<wrapperVars, frameVars, pc, backendVars>>

(* ------------------------------ AInScan ------------------------------- *)
\* mutant of SupportsScan: the capability test is skipped
SupportsScanAlways(info) == TRUE

\* AiInfo.has_pacer() / AiInfo.supports_scan
SupportsScan(info) == info.pacer

\* if high_channel >= self.number_of_channels: high_channel = n - 1
ClampHigh(high, n) == IF high >= n THEN n - 1 ELSE high

\* daq_windows only: if low_channel < 0: low_channel = 0
ClampLow(plat, low) == IF plat = "windows" /\ low < 0 THEN 0 ELSE low

\* channel_count = high_channel - low_channel + 1
ChannelCount(low, high) == high - low + 1

\* total_count = samples_per_channel * channel_count
TotalCount(spc, cc) == spc * cc

\* mutant of ScanDone: both platforms compare with total_count
ScanDoneByTotal(plat, cnt, spc, cc) == cnt >= TotalCount(spc, cc)

\* the loop's "are we done" test: daq_linux compares the reported count with
\* samples_per_channel, daq_windows with total_count
ScanDone(plat, cnt, spc, cc) ==
    IF plat = "linux" THEN cnt >= spc ELSE cnt >= TotalCount(spc, cc)

\* daq_linux: while (time.time() - start_time) <= scan_time
WithinScanTime(t, limit) == t <= limit

\* daq_windows: while status != enums.Status.IDLE
StillRunning(st) == st # "IDLE"

\* np.array(...).reshape((samples_per_channel, channel_count)): numpy takes a
\* dimension of -1 as "infer" and rejects any smaller one
ReshapeOk(spc, cc) == cc >= -1

\* the backend command c appended to the log of this call, marked when it
\* raised; a run of more than MaxPolls consecutive successful status polls is
\* recorded as MaxPolls of them
TrailingPolls(log) ==
    Cardinality({i \in 1..Len(log) :
                    \A j \in i..Len(log) : log[j] = "status"})
Issue(log, c, ok) ==
    IF ~ok THEN Append(log, IF c = "start" THEN "start_err"
                            ELSE IF c = "status" THEN "status_err"
                            ELSE "stop_err")
    ELSE IF c = "status" /\ TrailingPolls(log) >= MaxPolls THEN log
    ELSE Append(log, c)

\* instants the clock can show when read shortly after it showed t (the same
\* or the next second), and after a sleep begun at t (any later instant: the
\* poll interval is configured and a sleep may overrun)
AtOrAfter(t) == {u \in ClockValues : u = t \/ u = t + 1}
After(t) == {u \in ClockValues : u > t \/ u = ClockTop}

\* the call ends: by raising e, or by returning
ScanEnds(e) ==
    /\ pc' = "done"
    /\ exc' = e
    /\ outcome' = IF e = "none" THEN "returned" ELSE "raised"

\* AInScan(low, high, rate, spc, st) up to and including the allocation of
\* the buffer (lines 306-316 linux, 367-382 windows).  allocOk: whether the
\* allocation of a buffer of negative size succeeds (library-defined).
AInScanCall(low, high, spc, st, allocOk) ==
    /\ pc = "idle"
    /\ samples_per_channel' = spc
    /\ scan_time' = st
    /\ timeoutGiven' = (st # None)
    /\ status' = "unbound"
    /\ curr_count' = 0
    /\ elapsed' = 0
    /\ exitPath' = "none"
    /\ cmdLog' = <<>>
    /\ lastIO' = NoIO
    /\ lastCfg' = NoCfg
    /\ IF ~AiInfo.set
       THEN /\ ScanEnds("AttributeError")
            /\ UNCHANGED <<low_channel, high_channel, channel_count, bufferHeld>>
       ELSE IF ~SupportsScan(AiInfo)
       THEN /\ ScanEnds("Exception")
            /\ UNCHANGED <<low_channel, high_channel, channel_count, bufferHeld>>
       ELSE IF ~IsInt(number_of_channels)
       THEN \* high_channel >= None
            /\ ScanEnds("TypeError")
            /\ UNCHANGED <<low_channel, high_channel, channel_count, bufferHeld>>
       ELSE LET h == ClampHigh(high, Val(number_of_channels))
                l == ClampLow(platform, low)
                cc == ChannelCount(l, h)
            IN /\ high_channel' = h
               /\ low_channel' = l
               /\ channel_count' = cc
               /\ IF TotalCount(spc, cc) < 0 /\ ~allocOk
                  THEN /\ ScanEnds("ValueError")
                       /\ bufferHeld' = FALSE
                  ELSE /\ pc' = "start"
                       /\ bufferHeld' = TRUE
                       /\ exc' = "none"
                       /\ outcome' = "none"
    /\ UNCHANGED <<wrapperVars, scanRunning>>

\* the start-scan command (a_in_scan), then start_time and the default
\* scan_time on linux
AInScanStart(ok) ==
    /\ pc = "start"
    /\ cmdLog' = Issue(cmdLog, "start", ok)
    /\ IF ok
       THEN /\ scanRunning' = TRUE
            /\ elapsed' = 0
            /\ scan_time' = IF platform = "linux" /\ scan_time = None
                            THEN Some(DefaultScanTime) ELSE scan_time
            /\ pc' = IF platform = "linux" THEN "looptest" ELSE "poll0"
            /\ UNCHANGED <<exc, exitPath>>
       ELSE /\ exc' = "BackendError"
            /\ exitPath' = "startfail"
            /\ pc' = "finally"
            /\ UNCHANGED <<scanRunning, elapsed, scan_time>>
    /\ UNCHANGED <<wrapperVars, low_channel, high_channel, samples_per_channel,
                   channel_count, status, curr_count, timeoutGiven, outcome,
                   bufferHeld, lastIO, lastCfg>>

\* daq_linux: the while condition, read at clock instant t
AInScanLoopTest(t) ==
    /\ pc = "looptest"
    /\ platform = "linux"
    /\ t \in AtOrAfter(elapsed)
    /\ elapsed' = t
    /\ IF WithinScanTime(t, Val(scan_time))
       THEN pc' = "poll" /\ UNCHANGED exitPath
       ELSE pc' = "finally" /\ exitPath' = "timeout"
    /\ UNCHANGED <<wrapperVars, low_channel, high_channel, samples_per_channel,
                   scan_time, channel_count, status, curr_count, timeoutGiven,
                   exc, outcome, backendVars, lastIO, lastCfg>>

\* one status poll (get_scan_status / get_status) and the tests that follow
\* it.  ok: the poll succeeds; halted: the backend's scan has stopped by
\* itself since the last poll; cnt: the sample count the poll reports.
AInScanPoll(ok, halted, cnt) ==
    /\ pc \in {"poll0", "poll"}
    /\ cmdLog' = Issue(cmdLog, "status", ok)
    /\ scanRunning' = (scanRunning /\ ~halted)
    /\ IF ~ok
       THEN /\ exc' = "BackendError"
            /\ exitPath' = "error"
            /\ pc' = "finally"
            /\ UNCHANGED <<status, curr_count>>
       ELSE LET st == IF scanRunning /\ ~halted THEN "RUNNING" ELSE "IDLE" IN
            /\ status' = st
            /\ curr_count' = cnt
            /\ UNCHANGED exc
            /\ IF pc = "poll"
                  /\ ScanDone(platform, cnt, samples_per_channel, channel_count)
               THEN pc' = "finally" /\ exitPath' = "count"
               ELSE IF platform = "windows" /\ ~StillRunning(st)
               THEN pc' = "finally" /\ exitPath' = "idle"
               ELSE pc' = "sleep" /\ UNCHANGED exitPath
    /\ UNCHANGED <<wrapperVars, low_channel, high_channel, samples_per_channel,
                   scan_time, channel_count, elapsed, timeoutGiven, outcome,
                   bufferHeld, lastIO, lastCfg>>

\* sleep(self.sleep_time): the clock moves on to instant t
AInScanSleep(t) ==
    /\ pc = "sleep"
    /\ t \in After(elapsed)
    /\ elapsed' = t
    /\ pc' = IF platform = "linux" THEN "looptest" ELSE "poll"
    /\ UNCHANGED <<wrapperVars, low_channel, high_channel, samples_per_channel,
                   scan_time, channel_count, status, curr_count, exitPath,
                   timeoutGiven, exc, outcome, backendVars, lastIO, lastCfg>>

\* what follows the stop command on both platforms: the pending exception
\* propagates, or the data is reshaped and returned.  Only daq_windows has
\* a buffer to free, and frees it on the return path alone; the linux buffer
\* is a Python object dropped with the frame.
AInScanFinish(e) ==
    LET err == IF e # "none" THEN e
               ELSE IF ReshapeOk(samples_per_channel, channel_count) THEN "none"
               ELSE "ValueError"
    IN /\ ScanEnds(err)
       /\ bufferHeld' = (platform = "windows" /\ err # "none")

\* the finally block and the rest of the method.  stopOk: whether the stop
\* command succeeds; stopped: whether a failed stop still ended the scan.
AInScanFinally(stopOk, stopped) ==
    /\ pc = "finally"
    /\ IF platform = "linux"
       THEN IF daq_device = "deleted"
            THEN /\ AInScanFinish("AttributeError")
                 /\ UNCHANGED <<cmdLog, scanRunning>>
            ELSE IF daq_device = "None"
            THEN /\ AInScanFinish(exc)
                 /\ UNCHANGED <<cmdLog, scanRunning>>
            ELSE IF status = "unbound"
            THEN /\ AInScanFinish("UnboundLocalError")
                 /\ UNCHANGED <<cmdLog, scanRunning>>
            ELSE IF status = "RUNNING"
            THEN /\ cmdLog' = Issue(cmdLog, "stop", stopOk)
                 /\ scanRunning' = (scanRunning /\ ~stopOk /\ ~stopped)
                 /\ AInScanFinish(IF stopOk THEN exc ELSE "BackendError")
            ELSE /\ AInScanFinish(exc)
                 /\ UNCHANGED <<cmdLog, scanRunning>>
       ELSE /\ cmdLog' = Issue(cmdLog, "stop", stopOk)
            /\ scanRunning' = (scanRunning /\ ~stopOk /\ ~stopped)
            /\ AInScanFinish(IF stopOk THEN exc ELSE "BackendError")
    /\ UNCHANGED <<wrapperVars, frameVars, lastIO, lastCfg>>

\* the caller has the result and the frame of the call is gone; the object
\* is ready for the next call
AInScanReturn ==
    /\ pc = "done"
    /\ pc' = "idle"
    /\ low_channel' = 0
    /\ high_channel' = 0
    /\ samples_per_channel' = 0
    /\ scan_time' = None
    /\ channel_count' = 0
    /\ status' = "unbound"
    /\ curr_count' = 0
    /\ elapsed' = 0
    /\ exitPath' = "none"
    /\ timeoutGiven' = FALSE
    /\ exc' = "none"
    /\ outcome' = "none"
    /\ bufferHeld' = FALSE
    /\ cmdLog' = <<>>
    /\ UNCHANGED <<wrapperVars, scanRunning, lastIO, lastCfg>>

AInScan ==
    \/ \E low \in Channels, high \in Channels, spc \in SampleCounts,
          st \in ScanTimes, allocOk \in BOOLEAN :
            AInScanCall(low, high, spc, st, allocOk)
    \/ \E ok \in BOOLEAN : AInScanStart(ok)
    \/ \E t \in ClockValues : AInScanLoopTest(t)
    \/ \E ok \in BOOLEAN, halted \in BOOLEAN, cnt \in Counts :
            AInScanPoll(ok, halted, cnt)
    \/ \E t \in ClockValues : AInScanSleep(t)
    \/ \E stopOk \in BOOLEAN, stopped \in BOOLEAN :
            AInScanFinally(stopOk, stopped)
    \/ AInScanReturn

\* the steps the running call takes by itself
ScanStep ==
    \/ \E ok \in BOOLEAN : AInScanStart(ok)
    \/ \E t \in ClockValues : AInScanLoopTest(t)
    \/ \E ok \in BOOLEAN, halted \in BOOLEAN, cnt \in Counts :
            AInScanPoll(ok, halted, cnt)
    \/ \E t \in ClockValues : AInScanSleep(t)
    \/ \E stopOk \in BOOLEAN, stopped \in BOOLEAN :
            AInScanFinally(stopOk, stopped)

Next ==
    \/ Connect
    \/ Disconnect
    \/ \E channel \in Channels, ok \in BOOLEAN : AIn(channel, ok)
    \/ AInScan

Spec == Init /\ [][Next]_vars

\* the calls that change the configuration or the mode, with connect and
\* disconnect, on a wrapper built from any of the model's configurations
ConfigNext ==
    \/ Connect
    \/ Disconnect
    \/ \E overlay \in Overlays : SetConfig(overlay)
    \/ \E found \in BOOLEAN, file \in Overlays : ReadConfig(found, file)
    \/ SetAiMode

ConfigSpec == ConfigInit /\ [][ConfigNext]_vars

\* a wrapper built from the default config and a file that sets the digital
\* output port or nothing
IOInit ==
    /\ platform \in Platforms
    /\ verbose \in BOOLEAN
    /\ hwPacer = TRUE
    /\ \E file \in {NoOverlay, Setting("DOutPort", firstportb)} :
            Constructed(file, FALSE, NoOverlay)
    /\ InitRest

\* the capability refreshes and the single-sample calls, with connect and
\* disconnect
IONext ==
    \/ Connect
    \/ Disconnect
    \/ \E which \in {"get_ai_info", "get_ao_info", "get_dio_info"},
          ok \in BOOLEAN : GetInfo(which, ok)
    \/ \E channel \in Channels, ok \in BOOLEAN : AIn(channel, ok)
    \/ \E channel \in Channels, ok \in BOOLEAN : AOut(channel, ok)
    \/ \E channel \in {-1, 0}, port \in PortArgs,
          fails \in {"none", "config", "write"} : DOut(channel, port, fails)

IOSpec == IOInit /\ [][IONext]_vars

\* a windows wrapper built from the default config
RangeInit ==
    /\ platform = "windows"
    /\ verbose \in BOOLEAN
    /\ hwPacer = TRUE
    /\ Constructed(NoOverlay, FALSE, NoOverlay)
    /\ InitRest

\* connecting, configuring and the analog-input range calls on windows
RangeNext ==
    \/ \E b \in Boards, n \in 0..1, reg \in Registrations, ok \in BOOLEAN :
          ConnectWindows(b, n, reg, ok)
    \/ Disconnect
    \/ \E overlay \in {NoOverlay, Setting("ADCrange", 5)} : SetConfig(overlay)
    \/ \E range \in {"BIP10VOLTS", "UNI5VOLTS"}, ok \in BOOLEAN :
          SetAiRange(range, ok)
    \/ \E ok \in BOOLEAN : GetAiRange(ok)
    \/ \E r \in 0..Len(AvailableRanges) : SetAiRangeIndex(r)
    \/ \E member \in RangeValues, ok \in BOOLEAN : SetAiRangeValue(member, ok)

RangeSpec == RangeInit /\ [][RangeNext]_vars

\* calls of look_up_range alone
LookUpNext ==
    \E rang \in Voltages, polarity \in Polarities : LookUp(rang, polarity)

LookUpSpec == Init /\ [][LookUpNext]_vars

\* the thread running AInScan keeps running, and a sleep returns
FairSpec == Spec /\ WF_vars(ScanStep)

(* ============================== claims ================================ *)
\* how often the current call issued a command of the given kinds
Issued(kinds) == Cardinality({i \in 1..Len(cmdLog) : cmdLog[i] \in kinds})
Stops == Issued({"stop", "stop_err"})
StartSucceeded == Issued({"start"}) > 0
StartFailed == Issued({"start_err"}) > 0

\* the call in progress scans a proper channel range
ProperRange == low_channel <= high_channel /\ channel_count >= 1

\* C1: a finished AInScan call has issued the stop command exactly once if
\* its polling loop ended by sample count or by timeout, and never if its
\* start-scan command failed (stated for calls with a proper channel range).
C1_StopExactlyOnce ==
    (pc = "done" /\ ProperRange) =>
        /\ exitPath \in {"count", "timeout"} => Stops = 1
        /\ StartFailed => Stops = 0

\* C2: when an AInScan call whose start-scan succeeded has finished, by
\* returning or by raising, the backend scan is no longer running (a stop
\* command that itself failed aside; stated for calls with a proper channel
\* range).
C2_BackendIdleAtEnd ==
    (pc = "done" /\ ProperRange /\ StartSucceeded /\ Issued({"stop_err"}) = 0)
        => ~scanRunning

\* C3: when an AInScan call has finished, on any path, the buffer it
\* allocated has been released (stated for calls with a proper channel
\* range).
C3_BufferReleasedAtEnd ==
    (pc = "done" /\ ProperRange) => ~bufferHeld

\* C4: an AInScan call made while the cached analog-input capability reports
\* no pacing support ends at once by raising, with no buffer allocated, no
\* backend command issued and the wrapper's state unchanged.
C4_NoPacingNoSideEffect ==
    [][(pc = "idle" /\ pc' # "idle" /\ AiInfo.set /\ ~AiInfo.pacer)
        => /\ pc' = "done"
           /\ outcome' = "raised"
           /\ exc' = "Exception"
           /\ ~bufferHeld'
           /\ cmdLog' = <<>>
           /\ scanRunning' = scanRunning
           /\ wrapperVars' = wrapperVars]_vars

\* C4 witness: a connected device without pacing support has refused a scan
C4_Witness ==
    /\ pc = "done"
    /\ daq_device = "dev"
    /\ AiInfo.set /\ ~AiInfo.pacer
    /\ exc = "Exception"
    /\ cmdLog = <<>>

\* C5: on a connected device with N channels, AIn(channel) reaches the
\* backend only when 0 <= channel < N, and fails with a validation error
\* otherwise (in particular for channel = -1 and channel = N).
C5_AInStrictUpperBound ==
    (lastIO.op = "AIn" /\ daq_device = "dev" /\ IsInt(number_of_channels))
        => /\ lastIO.backend
                => (0 <= lastIO.channel
                    /\ lastIO.channel < Val(number_of_channels))
           /\ (lastIO.channel < 0
               \/ lastIO.channel >= Val(number_of_channels))
                => lastIO.result = "ValueError"

\* C6: when AInScan was given a timeout, no further status poll is made once
\* the elapsed time exceeds it, on either platform (stated for calls with a
\* proper channel range).
C6_TimeoutEndsLoop ==
    (timeoutGiven /\ pc = "poll" /\ ProperRange) => elapsed <= Val(scan_time)

\* the count at which each platform's loop is done: samples_per_channel on
\* linux, samples_per_channel * channel_count on windows
DoneAt ==
    IF platform = "linux" THEN samples_per_channel
    ELSE samples_per_channel * channel_count

\* the last successful poll was one whose count the loop tests: any poll on
\* linux, any poll but the one made before the loop on windows
CountTested ==
    /\ cmdLog # <<>>
    /\ cmdLog[Len(cmdLog)] = "status"
    /\ platform = "windows" => TrailingPolls(cmdLog) >= 2

\* C7 (as amended): the loop is left on the success path exactly at the first
\* tested poll whose count reaches the platform's threshold DoneAt: leaving
\* by count implies the last count reached it, and the loop neither goes on
\* nor leaves by another path after a tested poll that reached it.
C7_ExitAtThreshold ==
    /\ exitPath = "count" => curr_count >= DoneAt
    /\ (pc = "finally" /\ exitPath = "count") => CountTested
    /\ (pc \in {"sleep", "looptest", "poll"} /\ CountTested)
            => curr_count < DoneAt
    /\ (pc = "finally" /\ exitPath = "idle" /\ CountTested)
            => curr_count < DoneAt

\* C7 witness: a two-channel windows scan left its loop by count
C7_Witness ==
    /\ pc = "finally"
    /\ exitPath = "count"
    /\ platform = "windows"
    /\ channel_count = 2
    /\ curr_count >= samples_per_channel * channel_count

\* C7 (as claimed): on both platforms the loop is left by count at the first
\* poll reporting at least samples_per_channel, and at no poll reporting
\* fewer (stated for calls with a proper channel range).
C7_ExitAtSamplesPerChannel ==
    ProperRange =>
        /\ exitPath = "count" => curr_count >= samples_per_channel
        /\ (pc \in {"sleep", "looptest", "poll"} /\ CountTested)
                => curr_count < samples_per_channel

\* C8: an AInScan call made without a timeout always ends, even when the
\* backend keeps running and never reports the required sample count (so:
\* from the start of such a call, either the call ends or a poll reports at
\* least samples_per_channel; stated for calls with a proper channel range).
C8_ScanTerminates ==
    (pc = "start" /\ ~timeoutGiven /\ ProperRange)
        ~> (pc = "done" \/ curr_count >= samples_per_channel)

\* the commands of the current call are in order: first the start, then
\* status polls only, then possibly one stop, which at least one poll precedes
InOrder(log) ==
    \A i \in 1..Len(log) :
        /\ (i = 1) <=> (log[i] \in {"start", "start_err"})
        /\ log[i] \in {"stop", "stop_err"}
                => (i = Len(log) /\ \E j \in 1..(i - 1) :
                                        log[j] \in {"status", "status_err"})

\* C9: the backend commands of one AInScan call come in the order start,
\* one or more status polls, at most one stop; nothing follows the stop and
\* nothing precedes the start (stated for calls with a proper channel range).
C9_CommandOrder ==
    ProperRange => InOrder(cmdLog)

\* C10: while a buffer is allocated or a scan command has been issued, the
\* channel range in use satisfies low <= high and
\* channel_count = high - low + 1 >= 1.
C10_RangeAfterClamping ==
    (bufferHeld \/ cmdLog # <<>>)
        => /\ low_channel <= high_channel
           /\ channel_count = high_channel - low_channel + 1
           /\ channel_count >= 1

\* C11: once AInScan has issued its start-scan command, the channel range it
\* passed is the clamped one: the low channel is not negative and the high
\* channel is at most the device's channel count minus one, on both
\* platforms.
C11_StartGetsClampedRange ==
    (cmdLog # <<>> /\ IsInt(number_of_channels))
        => /\ low_channel >= 0
           /\ high_channel <= Val(number_of_channels) - 1

\* C12: an AInScan call whose start-scan or status poll raised ends by
\* raising that backend error, not an error of the cleanup code (a stop
\* command that itself failed aside; stated for calls with a proper
\* channel range).
C12_BackendErrorUnmodified ==
    (pc = "done" /\ ProperRange
     /\ Issued({"start_err", "status_err"}) > 0 /\ Issued({"stop_err"}) = 0)
        => (outcome = "raised" /\ exc = "BackendError")

\* the wrapper holds a device and a channel count cached from it
Connected == daq_device = "dev" /\ IsInt(number_of_channels)

\* C13: whenever the device is connected, the cached number_of_channels is
\* the device's channel count for the wrapper's current analog-input mode,
\* after any sequence of connect, set_ai_mode and set_config (stated for the
\* states a call that returned leaves).
C13_ChannelCountFollowsMode ==
    (Connected /\ outcome = "returned")
        => number_of_channels = Some(NumChansByMode(ai_mode))

\* C14: on a wrapper with no connection (never connected, or disconnected)
\* every capability refresh and every single-sample call fails with the
\* "not connected" error, and no backend call is made.
C14_NotConnectedGuard ==
    (lastIO.op # "none" /\ daq_device = "None")
        => (lastIO.result = "NotConnected" /\ ~lastIO.backend)

\* C15: on a connected device AIn, AOut and DOut fail with a validation
\* error, before any backend call, when the channel index is negative.
C15_NegativeChannelRejected ==
    (lastIO.op \in {"AIn", "AOut", "DOut"} /\ Connected
     /\ lastIO.channel < 0)
        => (lastIO.result = "ValueError" /\ ~lastIO.backend)

\* the port a DOut call is to work on: the one passed, or the configured
\* output port when none was passed
DOutPortWanted ==
    IF lastIO.port = None THEN Val(do_port) ELSE Val(lastIO.port)

\* C16: a DOut call that reaches the backend first configures the direction
\* of the port it was asked for (the configured output port when none was
\* passed) and then writes the bit to the same port, each exactly once.
C16_DOutConfiguresThenWrites ==
    (lastIO.op = "DOut" /\ lastIO.backend)
        => /\ \A i \in 1..Len(lastIO.cmds) :
                lastIO.cmds[i].port = DOutPortWanted
           /\ lastIO.result = "written"
                => lastIO.cmds = <<DCmd("config", DOutPortWanted),
                                   DCmd("write", DOutPortWanted)>>

\* C17: after set_config or read_config has merged and applied a
\* configuration without error, every attribute applied from it is
\* resolved: neither range, neither port nor the poll interval is None.
C17_AppliedSelectorsResolved ==
    (lastCfg.op \in {"set_config", "read_config"} /\ outcome = "returned")
        => /\ ao_range # None
           /\ ai_range # None
           /\ do_port # None
           /\ di_port # None
           /\ sleep_time # None

\* the positions of the range table that the arguments of the last
\* look_up_range call match: the name begins with the upper-cased first two
\* characters of the polarity and the maximum equals the voltage
RangeMatches ==
    {i \in 1..Len(ULRange) :
        /\ \A j \in 1..Len(Prefix(lastCfg.polarity, 2)) :
              /\ j <= Len(ULRange[i].name)
              /\ ULRange[i].name[j] = UpperChar(lastCfg.polarity[j])
        /\ ULRange[i].range_max = lastCfg.rang}

\* C18: look_up_range returns without raising; its result is the table's
\* first matching entry, None when no entry matches (so the result is a
\* function of the arguments).
C18_LookUpRangeFirstMatch ==
    lastCfg.op = "look_up_range"
        => /\ outcome = "returned"
           /\ lastCfg.result =
                IF RangeMatches = {} THEN None
                ELSE Some(ULRange[CHOOSE i \in RangeMatches :
                                    \A j \in RangeMatches : i <= j].id)

\* a lower-case polarity that two table entries match: the earlier one is
\* returned
C18_FirstOfTwoMatches ==
    /\ lastCfg.op = "look_up_range"
    /\ lastCfg.polarity = <<"m", "a">>
    /\ Cardinality(RangeMatches) = 2
    /\ lastCfg.result = Some("MA4TO20")

\* C19: in the object the constructor built from a config file and an
\* explicit config, every setting has the explicit config's value if that
\* sets the key, else the file's if that sets it, else the default's.
C19_ExplicitOverFileOverDefault ==
    lastCfg.op = "init"
        => \A k \in Keys :
              config[k] = IF lastCfg.explicit[k] # None THEN lastCfg.explicit[k]
                          ELSE IF lastCfg.file[k] # None THEN lastCfg.file[k]
                          ELSE DefaultConfig[k]

\* an object built from a file and an explicit config that set one key to
\* different values
C19_FileAndExplicitConflict ==
    /\ lastCfg.op = "init"
    /\ \E k \in Keys :
          /\ lastCfg.file[k] # None
          /\ lastCfg.explicit[k] # None
          /\ lastCfg.file[k] # lastCfg.explicit[k]
          /\ config[k] = lastCfg.explicit[k]

\* C20: a read_config call on a path where no file exists returns without
\* raising and leaves the merged configuration and every attribute applied
\* from it (both ranges, the mode, both ports, the poll interval) as they
\* were before the call.
C20_MissingFileIsNoOverlay ==
    [][(lastCfg'.op = "read_config" /\ ~lastCfg'.found)
          => /\ outcome' = "returned"
             /\ config' = config
             /\ ao_range' = ao_range
             /\ ai_mode' = ai_mode
             /\ ai_range' = ai_range
             /\ do_port' = do_port
             /\ di_port' = di_port
             /\ sleep_time' = sleep_time]_vars

\* read_config on a missing file has returned on a connected wrapper whose
\* attributes differ from what applying its configuration again would give
C20_MissingFileAfterConnect ==
    /\ lastCfg.op = "read_config"
    /\ ~lastCfg.found
    /\ daq_device = "dev"
    /\ outcome = "returned"
    /\ ApplyConfig(config, CurSelectors).sel # CurSelectors

\* C21: after a connect call that raised, the wrapper is disconnected: its
\* device handle is None.
C21_FailedConnectLeavesDisconnected ==
    (lastCfg.op = "connect" /\ outcome = "raised") => daq_device = "None"

\* C22: a connect call on windows in which registering the board raised a
\* backend error other than "already in use" raises, and does not leave the
\* device handle set.
C22_OtherRegistrationErrorIsFatal ==
    (lastCfg.op = "connect" /\ lastCfg.result = Some("error"))
        => (outcome = "raised" /\ daq_device # "dev")

\* C23: after a connect call that returned, on a wrapper whose configuration
\* resolves to a range, the analog-input mode and range in effect (the ones
\* AIn and AInScan pass to the backend) are the ones resolved from the
\* configuration's ADCmode, ADCrange and ADCpolarity.
C23_ConnectKeepsConfiguredModeAndRange ==
    (/\ lastCfg.op = "connect"
     /\ outcome = "returned"
     /\ LookUpRange(Val(config.ADCrange), Val(config.ADCpolarity)) # None)
        => /\ Some(ai_mode) = LookUpMode(Val(config.ADCmode))
           /\ ai_range = LookUpRange(Val(config.ADCrange),
                                     Val(config.ADCpolarity))

\* C24: a set_config call that raised while applying the merged
\* configuration leaves the stored configuration and every attribute applied
\* from it as they were before the call.
C24_FailedSetConfigChangesNothing ==
    [][(lastCfg'.op = "set_config" /\ outcome' = "raised")
          => /\ config' = config
             /\ ao_range' = ao_range
             /\ ai_mode' = ai_mode
             /\ ai_range' = ai_range
             /\ do_port' = do_port
             /\ di_port' = di_port
             /\ sleep_time' = sleep_time]_vars

\* C25: every disconnect call, whatever the state it is made in, returns
\* without raising and leaves the device handle, the board number and the
\* channel count None.
C25_DisconnectTotal ==
    lastCfg.op = "disconnect"
        => /\ outcome = "returned"
           /\ daq_device = "None"
           /\ boardnum = None
           /\ number_of_channels = None

\* C26: on windows, whenever the wrapper is connected, the cached
\* analog-input range (the one AIn and AInScan use) is the range set on the
\* board.
C26_CachedRangeIsBoardRange ==
    (platform = "windows" /\ Connected) => ai_range = Some(board_range)

====
